---- MODULE Spec2Model ----
(***************************************************************************)
(* Model of python_test/src/vecrot.py: main() builds two gp_Vec values,    *)
(* applies six vector operations, collects the results in an ordered       *)
(* dict, ensures the result directory exists and dumps the dict as JSON.   *)
(*                                                                         *)
(* Numbers.  A double is modelled as a fixed-point integer counting units  *)
(* of 1/Scale: the double 1.0 is the integer Scale.  Sums and differences  *)
(* are exact; a product, a quotient and a square root are rounded to the   *)
(* nearest unit, ties to even, the same for both signs, as IEEE-754        *)
(* round-to-nearest is.  Values beyond MaxFinite stand for the non-finite  *)
(* doubles.                                                                *)
(***************************************************************************)
EXTENDS Integers, Sequences, FiniteSets, TLC

\* ------------------------------------------------------------ bounds
\* units per 1.0 of the fixed-point doubles
Scale == 4
\* the largest finite double of the model
MaxFinite == 100000
\* components of the vectors the operations are checked on, in units
MaxCoord == 3
\* invocations of the script on one file system
MaxRuns == 2

\* ------------------------------------------------------------ doubles
Abs(n) == IF n < 0 THEN -n ELSE n

Sgn(n) == IF n < 0 THEN -1 ELSE IF n > 0 THEN 1 ELSE 0

\* the double n.0
F(n) == n * Scale

PosInf == MaxFinite + 1

NaN == MaxFinite + 2

IsFinite(x) == Abs(x) <= MaxFinite

\* n/d for d > 0, rounded to the nearest integer, ties to even, sign-symmetric
RoundDiv(n, d) ==
    LET m == Abs(n)
        q == m \div d
        r == m % d
        up == (2 * r > d) \/ (2 * r = d /\ q % 2 = 1)
    IN  Sgn(n) * (IF up THEN q + 1 ELSE q)

\* the double product x*y
FMul(x, y) == RoundDiv(x * y, Scale)

\* the double quotient x/d; a zero divisor gives the IEEE-754 special values
FDiv(x, d) ==
    IF d = 0
    THEN IF x = 0 THEN NaN ELSE Sgn(x) * PosInf
    ELSE Sgn(d) * RoundDiv(x * Scale, Abs(d))

RECURSIVE FloorSqrtFrom(_, _)
FloorSqrtFrom(n, r) == IF (r + 1) * (r + 1) > n THEN r ELSE FloorSqrtFrom(n, r + 1)

\* the double sqrt(s), s >= 0
FSqrt(s) ==
    LET n == s * Scale
        r == FloorSqrtFrom(n, 0)
    IN  IF n - r * r > r THEN r + 1 ELSE r

\* ------------------------------------------------------------ Python values
None == [type |-> "NoneType"]

PyFloat(n) == [type |-> "float", val |-> n]

PyDict(items) == [type |-> "dict", items |-> items]

\* ------------------------------------------------------------ gp_Vec
gp_Vec(x, y, z) == [type |-> "gp_Vec", x |-> x, y |-> y, z |-> z]

\* faulty variant: the z component adds a.z to itself
Add_TypoZ(a, b) == gp_Vec(a.x + b.x, a.y + b.y, a.z + a.z)

\* v1.X() + v2.X(), v1.Y() + v2.Y(), v1.Z() + v2.Z()
Add(a, b) == gp_Vec(a.x + b.x, a.y + b.y, a.z + b.z)

\* faulty variant: the z component is added instead of subtracted
Subtract_TypoZ(a, b) == gp_Vec(a.x - b.x, a.y - b.y, a.z + b.z)

\* v1.X() - v2.X(), v1.Y() - v2.Y(), v1.Z() - v2.Z()
Subtract(a, b) == gp_Vec(a.x - b.x, a.y - b.y, a.z - b.z)

\* faulty variant: the z term is left out
Dot_MissingZ(a, b) == FMul(a.x, b.x) + FMul(a.y, b.y)

\* gp_Vec.Dot
Dot(a, b) == FMul(a.x, b.x) + FMul(a.y, b.y) + FMul(a.z, b.z)

\* faulty variant: the y component has its two terms exchanged
Crossed_WrongY(a, b) ==
    gp_Vec(FMul(a.y, b.z) - FMul(a.z, b.y),
           FMul(a.x, b.z) - FMul(a.z, b.x),
           FMul(a.x, b.y) - FMul(a.y, b.x))

\* gp_Vec.Crossed
Crossed(a, b) ==
    gp_Vec(FMul(a.y, b.z) - FMul(a.z, b.y),
           FMul(a.z, b.x) - FMul(a.x, b.z),
           FMul(a.x, b.y) - FMul(a.y, b.x))

\* gp_Vec.Magnitude
Magnitude(a) == FSqrt(FMul(a.x, a.x) + FMul(a.y, a.y) + FMul(a.z, a.z))

\* faulty variant: a vector of magnitude 0 is returned as it is
Normalized_ReturnsInput(a) ==
    LET D == Magnitude(a)
    IN  IF D <= 0
        THEN {[kind |-> "return", vec |-> a]}
        ELSE {[kind |-> "return", vec |-> gp_Vec(FDiv(a.x, D), FDiv(a.y, D), FDiv(a.z, D))]}

\* gp_Vec.Normalized: the vector divided by its magnitude D.  The library
\* raises Standard_ConstructionError when D <= gp::Resolution() only in a build
\* that keeps its exception checks; a build without them divides by D as it is.
\* The set holds every outcome a build can produce.
Normalized(a) ==
    LET D == Magnitude(a)
        quotient == gp_Vec(FDiv(a.x, D), FDiv(a.y, D), FDiv(a.z, D))
    IN  IF D <= 0
        THEN {[kind |-> "raise", exc |-> "Standard_ConstructionError"],
              [kind |-> "return", vec |-> quotient]}
        ELSE {[kind |-> "return", vec |-> quotient]}

\* ------------------------------------------------------------ serialization
vector_to_dict(vec) ==
    PyDict(<< <<"x", PyFloat(vec.x)>>, <<"y", PyFloat(vec.y)>>, <<"z", PyFloat(vec.z)>> >>)

\* faulty variant: the entries of the dot and the cross product are exchanged
OutputDict_Reordered(a, b, vadd, vsub, d, c, m, n) ==
    PyDict(<< <<"v1", vector_to_dict(a)>>,
              <<"v2", vector_to_dict(b)>>,
              <<"v1 + v2", vector_to_dict(vadd)>>,
              <<"v1 - v2", vector_to_dict(vsub)>>,
              <<"v1 cross v2", vector_to_dict(c)>>,
              <<"v1 dot v2", d>>,
              <<"v1 magnitude", m>>,
              <<"v1 normalized", vector_to_dict(n)>> >>)

\* the dict literal of main
OutputDict(a, b, vadd, vsub, d, c, m, n) ==
    PyDict(<< <<"v1", vector_to_dict(a)>>,
              <<"v2", vector_to_dict(b)>>,
              <<"v1 + v2", vector_to_dict(vadd)>>,
              <<"v1 - v2", vector_to_dict(vsub)>>,
              <<"v1 dot v2", d>>,
              <<"v1 cross v2", vector_to_dict(c)>>,
              <<"v1 magnitude", m>>,
              <<"v1 normalized", vector_to_dict(n)>> >>)

\* json encoding of a Python value: a float becomes a number, a dict an object
\* whose members keep the dict's order (the values of a nested dict are floats)
JsonMember(item) == <<item[1], [json |-> "number", val |-> item[2].val]>>

JsonValue(v) ==
    IF v.type = "float"
    THEN [json |-> "number", val |-> v.val]
    ELSE [json |-> "object",
          members |-> [i \in 1..Len(v.items) |-> JsonMember(v.items[i])]]

\* the chunks json.dump writes for the top-level dict, one per entry
JsonChunks(d) == [i \in 1..Len(d.items) |-> <<d.items[i][1], JsonValue(d.items[i][2])>>]

\* ------------------------------------------------------------ state
VARIABLES
    pc,             \* the statement of main that runs next
    v1, v2,         \* locals of main
    v_add, v_sub, dot, cross, magnitude, v1_normalized, output,
    f,              \* the file object of the with statement
    exc,            \* the exception that ended the run, or "none"
    stdout,         \* what the process has printed
    resultDir,      \* what the path ../result is: "absent", "dir" or "notdir"
    outFile,        \* ../result/python_vector_results.json: exists, data
    runs,           \* invocations of the script so far
    a, b, op, res   \* an operation applied to a pair of vectors

locals == <<v1, v2, v_add, v_sub, dot, cross, magnitude, v1_normalized, output>>

proc == <<pc, locals, f, exc, stdout>>

fs == <<resultDir, outFile>>

pure == <<a, b, op, res>>

vars == <<proc, fs, runs, pure>>

NoFile == [exists |-> FALSE, data |-> <<>>]

\* the message of the final print, in ASCII transliteration
SuccessMessage == "Kekka o python_vector_results.json ni shutsuryoku shimashita."

\* a fresh process at the top of main
ProcInit ==
    /\ pc = "construct"
    /\ v1 = None /\ v2 = None /\ v_add = None /\ v_sub = None
    /\ dot = None /\ cross = None /\ magnitude = None
    /\ v1_normalized = None /\ output = None
    /\ f = "none" /\ exc = "none" /\ stdout = <<>>

PureIdle == a = None /\ b = None /\ op = "none" /\ res = None

Init ==
    /\ ProcInit
    /\ resultDir \in {"absent", "dir", "notdir"}
    /\ outFile = NoFile
    /\ runs = 1
    /\ PureIdle

\* an uncaught exception ends main; the with statement closes an open file
Raise(e) ==
    /\ pc' = "raised"
    /\ exc' = e
    /\ f' = IF f = "open" THEN "closed" ELSE f

\* ------------------------------------------------------------ main
Construct ==
    /\ pc = "construct"
    /\ v1' = gp_Vec(F(1), F(2), F(3))
    /\ v2' = gp_Vec(F(4), F(5), F(6))
    /\ pc' = "add"
    /\ UNCHANGED <<v_add, v_sub, dot, cross, magnitude, v1_normalized, output>>
    /\ UNCHANGED <<f, exc, stdout, fs, runs, pure>>

StepAdd ==
    /\ pc = "add"
    /\ v_add' = Add(v1, v2)
    /\ pc' = "sub"
    /\ UNCHANGED <<v1, v2, v_sub, dot, cross, magnitude, v1_normalized, output>>
    /\ UNCHANGED <<f, exc, stdout, fs, runs, pure>>

StepSub ==
    /\ pc = "sub"
    /\ v_sub' = Subtract(v1, v2)
    /\ pc' = "dot"
    /\ UNCHANGED <<v1, v2, v_add, dot, cross, magnitude, v1_normalized, output>>
    /\ UNCHANGED <<f, exc, stdout, fs, runs, pure>>

StepDot ==
    /\ pc = "dot"
    /\ dot' = PyFloat(Dot(v1, v2))
    /\ pc' = "cross"
    /\ UNCHANGED <<v1, v2, v_add, v_sub, cross, magnitude, v1_normalized, output>>
    /\ UNCHANGED <<f, exc, stdout, fs, runs, pure>>

StepCross ==
    /\ pc = "cross"
    /\ cross' = Crossed(v1, v2)
    /\ pc' = "magnitude"
    /\ UNCHANGED <<v1, v2, v_add, v_sub, dot, magnitude, v1_normalized, output>>
    /\ UNCHANGED <<f, exc, stdout, fs, runs, pure>>

StepMagnitude ==
    /\ pc = "magnitude"
    /\ magnitude' = PyFloat(Magnitude(v1))
    /\ pc' = "normalize"
    /\ UNCHANGED <<v1, v2, v_add, v_sub, dot, cross, v1_normalized, output>>
    /\ UNCHANGED <<f, exc, stdout, fs, runs, pure>>

\* faulty variant: v1.Normalize(), which normalizes v1 in place
StepNormalize_InPlace ==
    /\ pc = "normalize"
    /\ \E o \in Normalized(v1) :
          IF o.kind = "raise"
          THEN Raise(o.exc) /\ UNCHANGED <<v1, v1_normalized>>
          ELSE /\ v1' = o.vec
               /\ v1_normalized' = o.vec
               /\ pc' = "output"
               /\ UNCHANGED <<f, exc>>
    /\ UNCHANGED <<v2, v_add, v_sub, dot, cross, magnitude, output>>
    /\ UNCHANGED <<stdout, fs, runs, pure>>

StepNormalize ==
    /\ pc = "normalize"
    /\ \E o \in Normalized(v1) :
          IF o.kind = "raise"
          THEN Raise(o.exc) /\ UNCHANGED v1_normalized
          ELSE /\ v1_normalized' = o.vec
               /\ pc' = "output"
               /\ UNCHANGED <<f, exc>>
    /\ UNCHANGED <<v1, v2, v_add, v_sub, dot, cross, magnitude, output>>
    /\ UNCHANGED <<stdout, fs, runs, pure>>

BuildOutput ==
    /\ pc = "output"
    /\ output' = OutputDict(v1, v2, v_add, v_sub, dot, cross, magnitude, v1_normalized)
    /\ pc' = "makedirs"
    /\ UNCHANGED <<v1, v2, v_add, v_sub, dot, cross, magnitude, v1_normalized>>
    /\ UNCHANGED <<f, exc, stdout, fs, runs, pure>>

\* faulty variant: os.makedirs(result_dir), which raises when the directory exists
MakeDirs_NoExistOk ==
    /\ pc = "makedirs"
    /\ \/ /\ resultDir = "absent"
          /\ resultDir' = "dir"
          /\ pc' = "open"
          /\ UNCHANGED <<f, exc>>
       \/ /\ resultDir = "absent"
          /\ Raise("PermissionError")
          /\ UNCHANGED resultDir
       \/ /\ resultDir \in {"dir", "notdir"}
          /\ Raise("FileExistsError")
          /\ UNCHANGED resultDir
    /\ UNCHANGED <<locals, stdout, outFile, runs, pure>>

\* os.makedirs(result_dir, exist_ok=True): an existing directory is left as it
\* is; a path that exists and is no directory raises FileExistsError; creating
\* an absent directory may fail in the operating system
MakeDirs ==
    /\ pc = "makedirs"
    /\ \/ /\ resultDir = "dir"
          /\ pc' = "open"
          /\ UNCHANGED <<resultDir, f, exc>>
       \/ /\ resultDir = "absent"
          /\ resultDir' = "dir"
          /\ pc' = "open"
          /\ UNCHANGED <<f, exc>>
       \/ /\ resultDir = "absent"
          /\ Raise("PermissionError")
          /\ UNCHANGED resultDir
       \/ /\ resultDir = "notdir"
          /\ Raise("FileExistsError")
          /\ UNCHANGED resultDir
    /\ UNCHANGED <<locals, stdout, outFile, runs, pure>>

\* open(output_path, "w"): creates the file or truncates it, or fails and
\* leaves the file system as it is
OpenFile ==
    /\ pc = "open"
    /\ \/ /\ resultDir = "dir"
          /\ outFile' = [exists |-> TRUE, data |-> <<>>]
          /\ f' = "open"
          /\ pc' = "dump"
          /\ UNCHANGED exc
       \/ /\ Raise(IF resultDir = "dir" THEN "PermissionError" ELSE "FileNotFoundError")
          /\ UNCHANGED outFile
    /\ UNCHANGED <<locals, stdout, resultDir, runs, pure>>

\* json.dump: fp.write of the next chunk; a write may fail (disk full)
DumpChunk ==
    /\ pc = "dump"
    /\ Len(outFile.data) < Len(JsonChunks(output))
    /\ \/ /\ outFile' = [outFile EXCEPT !.data =
                            Append(@, JsonChunks(output)[Len(@) + 1])]
          /\ UNCHANGED <<pc, f, exc>>
       \/ /\ Raise("OSError")
          /\ UNCHANGED outFile
    /\ UNCHANGED <<locals, stdout, resultDir, runs, pure>>

\* the end of the with block closes the file
CloseFile ==
    /\ pc = "dump"
    /\ Len(outFile.data) = Len(JsonChunks(output))
    /\ f' = "closed"
    /\ pc' = "print"
    /\ UNCHANGED <<locals, exc, stdout, fs, runs, pure>>

\* faulty variant: the print stands before the with statement's body has run
PrintMessage_InsideWith ==
    /\ pc = "dump"
    /\ stdout = <<>>
    /\ stdout' = Append(stdout, SuccessMessage)
    /\ UNCHANGED <<pc, locals, f, exc, fs, runs, pure>>

PrintMessage ==
    /\ pc = "print"
    /\ stdout' = Append(stdout, SuccessMessage)
    /\ pc' = "done"
    /\ UNCHANGED <<locals, f, exc, fs, runs, pure>>

\* the script is invoked again: a new process on the same file system
Rerun ==
    /\ pc \in {"done", "raised"}
    /\ runs < MaxRuns
    /\ runs' = runs + 1
    /\ pc' = "construct"
    /\ v1' = None /\ v2' = None /\ v_add' = None /\ v_sub' = None
    /\ dot' = None /\ cross' = None /\ magnitude' = None
    /\ v1_normalized' = None /\ output' = None
    /\ f' = "none" /\ exc' = "none" /\ stdout' = <<>>
    /\ UNCHANGED <<fs, pure>>

Next ==
    \/ Construct \/ StepAdd \/ StepSub \/ StepDot \/ StepCross
    \/ StepMagnitude \/ StepNormalize \/ BuildOutput
    \/ MakeDirs \/ OpenFile \/ DumpChunk \/ CloseFile \/ PrintMessage
    \/ Rerun

Spec == Init /\ [][Next]_vars

\* ------------------------------------------------------------ the operations
\* The operations of main applied to a pair of vectors drawn from a bounded
\* set, each leaving its outcome in res.
Coords == (-MaxCoord)..MaxCoord

Vectors == {gp_Vec(x, y, z) : x \in Coords, y \in Coords, z \in Coords}

Return(v) == [kind |-> "return", vec |-> v]

InitVec ==
    /\ ProcInit
    /\ resultDir = "absent"
    /\ outFile = NoFile
    /\ runs = 1
    /\ a \in Vectors
    /\ b \in Vectors
    /\ op = "none"
    /\ res = None

ApplyAdd ==
    /\ op = "none"
    /\ op' = "add"
    /\ res' = Return(Add(a, b))
    /\ UNCHANGED <<a, b, proc, fs, runs>>

ApplySubtract ==
    /\ op = "none"
    /\ op' = "subtract"
    /\ res' = Return(Subtract(a, b))
    /\ UNCHANGED <<a, b, proc, fs, runs>>

ApplyCrossed ==
    /\ op = "none"
    /\ op' = "cross"
    /\ res' = Return(Crossed(a, b))
    /\ UNCHANGED <<a, b, proc, fs, runs>>

ApplyNormalized ==
    /\ op = "none"
    /\ op' = "normalize"
    /\ res' \in Normalized(a)
    /\ UNCHANGED <<a, b, proc, fs, runs>>

NextVec == ApplyAdd \/ ApplySubtract \/ ApplyCrossed \/ ApplyNormalized

SpecVec == InitVec /\ [][NextVec]_vars

\* ------------------------------------------------------------ properties
\* the value stored under a label of a dict
Lookup(d, key) == d.items[CHOOSE i \in 1..Len(d.items) : d.items[i][1] = key][2]

Keys(d) == [i \in 1..Len(d.items) |-> d.items[i][1]]

\* the three-field record of the whole-number vector (x, y, z)
XYZ(x, y, z) ==
    PyDict(<< <<"x", PyFloat(F(x))>>, <<"y", PyFloat(F(y))>>, <<"z", PyFloat(F(z))>> >>)

Negate(v) == gp_Vec(-v.x, -v.y, -v.z)

Zero == gp_Vec(0, 0, 0)

Labels ==
    <<"v1", "v2", "v1 + v2", "v1 - v2", "v1 dot v2", "v1 cross v2",
      "v1 magnitude", "v1 normalized">>

ScalarLabels == {"v1 dot v2", "v1 magnitude"}

AllComputed ==
    /\ v1 # None /\ v2 # None /\ v_add # None /\ v_sub # None /\ dot # None
    /\ cross # None /\ magnitude # None /\ v1_normalized # None

FileComplete ==
    /\ outFile.exists
    /\ output # None
    /\ outFile.data = JsonChunks(output)

\* the file holds some entries of the record and not all of them
FilePartial == outFile.exists /\ Len(outFile.data) \in 1..(Len(Labels) - 1)

\* C1: with v1 = (1,2,3) and v2 = (4,5,6), main computes add = (5,7,9),
\* subtract = (-3,-3,-3), dot = 32 and cross = (-3,6,-3), and the output record
\* stores them under "v1 + v2", "v1 - v2", "v1 dot v2" and "v1 cross v2".
C1_ConcreteScenario ==
    output # None =>
        /\ v_add = gp_Vec(F(5), F(7), F(9))
        /\ v_sub = gp_Vec(F(-3), F(-3), F(-3))
        /\ dot = PyFloat(F(32))
        /\ cross = gp_Vec(F(-3), F(6), F(-3))
        /\ Lookup(output, "v1 + v2") = XYZ(5, 7, 9)
        /\ Lookup(output, "v1 - v2") = XYZ(-3, -3, -3)
        /\ Lookup(output, "v1 dot v2") = PyFloat(F(32))
        /\ Lookup(output, "v1 cross v2") = XYZ(-3, 6, -3)

C1_Witness == pc = "done" /\ output # None /\ exc = "none"

C3_AllOrNothing ==
    pc \in {"done", "raised"} =>
        \/ pc = "done" /\ exc = "none" /\ AllComputed /\ FileComplete
        \/ pc = "raised" /\ exc # "none" /\ ~FilePartial

\* C4: no operation changes v1 or v2: once constructed they keep their
\* components, and the entries "v1" and "v2" of the record hold them.
C4_InputsUnchanged ==
    /\ pc # "construct" => v1 = gp_Vec(F(1), F(2), F(3)) /\ v2 = gp_Vec(F(4), F(5), F(6))
    /\ output # None =>
          /\ Lookup(output, "v1") = XYZ(1, 2, 3)
          /\ Lookup(output, "v2") = XYZ(4, 5, 6)

C4_Witness == pc = "makedirs" /\ output # None /\ v1_normalized # None

\* C5: the record has exactly the eight labels, in order; "v1 dot v2" and
\* "v1 magnitude" map to scalars, the other six to records with the fields
\* x, y, z; the file written by a successful run has the same shape.
C5_RecordShape ==
    /\ output # None =>
          /\ Keys(output) = Labels
          /\ \A i \in 1..Len(output.items) :
                LET k == output.items[i][1]
                    v == output.items[i][2]
                IN  IF k \in ScalarLabels
                    THEN v.type = "float"
                    ELSE v.type = "dict" /\ Keys(v) = <<"x", "y", "z">>
                         /\ \A j \in 1..3 : v.items[j][2].type = "float"
    /\ pc = "done" =>
          /\ [i \in 1..Len(outFile.data) |-> outFile.data[i][1]] = Labels
          /\ \A i \in 1..Len(outFile.data) :
                LET k == outFile.data[i][1]
                    v == outFile.data[i][2]
                IN  IF k \in ScalarLabels
                    THEN v.json = "number"
                    ELSE /\ v.json = "object"
                         /\ [j \in 1..Len(v.members) |-> v.members[j][1]] = <<"x", "y", "z">>

C5_Witness == pc = "done" /\ output # None /\ Len(outFile.data) = 8

\* C6: ensuring the directory is idempotent: an existing directory raises no
\* error and is left as it is, an absent one exists once the step completes,
\* and no step of the program removes it, so a second run passes the step.
C6_EnsureDirIdempotent ==
    [][/\ pc = "makedirs" /\ resultDir = "dir" =>
             pc' = "open" /\ exc' = "none" /\ resultDir' = "dir" /\ outFile' = outFile
       /\ pc = "makedirs" /\ pc' = "open" => resultDir' = "dir"
       /\ resultDir = "dir" => resultDir' = "dir"]_vars

C6_Witness == runs = 2 /\ pc = "open" /\ resultDir = "dir" /\ outFile.exists

\* C7: cross(a,b) = (a.y*b.z - a.z*b.y, a.z*b.x - a.x*b.z, a.x*b.y - a.y*b.x)
\* and cross(a,b) = negate(cross(b,a)).
C7_Cross ==
    op = "cross" =>
        /\ res = Return(gp_Vec(FMul(a.y, b.z) - FMul(a.z, b.y),
                               FMul(a.z, b.x) - FMul(a.x, b.z),
                               FMul(a.x, b.y) - FMul(a.y, b.x)))
        /\ res.vec = Negate(Crossed(b, a))

C7_Witness ==
    /\ op = "cross"
    /\ res.vec.x # 0 /\ res.vec.y # 0 /\ res.vec.z # 0
    /\ 2 * Abs(a.y * b.z) % Scale # 0

\* C8: add(a,b) is the component-wise sum, raises no error, and
\* add(a,b) = add(b,a).
C8_Add ==
    op = "add" =>
        /\ res.kind = "return"
        /\ res.vec.x = a.x + b.x /\ res.vec.y = a.y + b.y /\ res.vec.z = a.z + b.z
        /\ res.vec = Add(b, a)

C8_Witness == op = "add" /\ a # b /\ res.vec # Zero /\ a # Zero /\ b # Zero

\* C9: subtract(a,b) is the component-wise difference and
\* subtract(a,b) = negate(subtract(b,a)).
C9_Subtract ==
    op = "subtract" =>
        /\ res.kind = "return"
        /\ res.vec.x = a.x - b.x /\ res.vec.y = a.y - b.y /\ res.vec.z = a.z - b.z
        /\ res.vec = Negate(Subtract(b, a))

C9_Witness == op = "subtract" /\ res.vec.x # 0 /\ res.vec.y # 0 /\ res.vec.z # 0

\* C10: the file is opened only after the directory is ensured and all eight
\* results are computed; the message is printed only after the record is
\* written and the file closed; a run that fails prints nothing.
C10_StepOrder ==
    /\ f # "none" => resultDir = "dir" /\ AllComputed /\ output # None
    /\ pc \in {"open", "dump", "print", "done"} => resultDir = "dir" /\ AllComputed
    /\ stdout # <<>> =>
          /\ stdout = <<SuccessMessage>>
          /\ f = "closed" /\ exc = "none" /\ FileComplete
    /\ pc = "raised" => stdout = <<>> /\ exc # "none"

C10_Witness == pc = "done" /\ stdout = <<SuccessMessage>> /\ f = "closed"
====
